---- MODULE Spec2Model ----
(***************************************************************************)
(* Model of io/gotetra.go: the phase-sheet header codec, the vector        *)
(* payload reader, the reusable GotetraBuffer and CellBounds.              *)
(*                                                                         *)
(* Values: an int32 is an integer; an int64, float64 or float32 is the     *)
(* sequence of its bytes, least significant byte first (8, 8 and 4 bytes). *)
(* A file is a sequence of bytes.  A byte order is "LittleEndian" or       *)
(* "BigEndian".                                                            *)
(***************************************************************************)
EXTENDS Integers, Sequences, FiniteSets, TLC

(* ------------------------------ bounds -------------------------------- *)
\* largest GridWidth written into a file
MaxGridWidth == 4
\* largest SegmentWidth written into a file
MaxSegmentWidth == 2
\* declared header sizes range over the true size +/- 1..MaxSizeDelta
MaxSizeDelta == 1
\* largest number of cells per axis asked of CellBounds
MaxCells == 10

(* --------------------------- byte arithmetic -------------------------- *)
Reverse(s) == [i \in 1..Len(s) |-> s[Len(s) + 1 - i]]

RECURSIVE Digits(_, _)
\* the k low bytes of the natural number n, least significant first
Digits(n, k) == IF k = 0 THEN <<>> ELSE <<n % 256>> \o Digits(n \div 256, k - 1)

RECURSIVE ToInt(_)
\* the natural number a byte sequence (least significant first) stands for
ToInt(d) == IF d = <<>> THEN 0 ELSE d[1] + 256 * ToInt(Tail(d))

\* an int64 small enough to be used as a length or a loop bound here
Small(d) == \A i \in 4..Len(d) : d[i] = 0

RECURSIVE ColSum(_, _, _, _)
ColSum(a, b, k, i) ==
    IF i > k THEN 0 ELSE a[i] * b[k + 1 - i] + ColSum(a, b, k, i + 1)

RECURSIVE MulCarry(_, _, _, _)
MulCarry(a, b, k, carry) ==
    IF k > Len(a) THEN <<>>
    ELSE LET t == ColSum(a, b, k, 1) + carry
         IN  <<t % 256>> \o MulCarry(a, b, k + 1, t \div 256)

\* Go's int64 multiplication: the product modulo 2^64
Mul64(a, b) == MulCarry(a, b, 1, 0)

Cube64(a) == Mul64(Mul64(a, a), a)

\* the bytes of an int32 in the given order (two's complement)
PutInt32(order, v) ==
    LET w  == IF v < 0 THEN (v + 2147483647) + 1 ELSE v
        lo == Digits(w, 4)
        d  == [lo EXCEPT ![4] = lo[4] + (IF v < 0 THEN 128 ELSE 0)]
    IN  IF order = "LittleEndian" THEN d ELSE Reverse(d)

\* the writer's side of a byte order: the bytes of a field as stored
PutBytes(order, v) == IF order = "LittleEndian" THEN v ELSE Reverse(v)

\* binary.ByteOrder applied to the stored bytes of a fixed-size field: the
\* field's bytes, least significant first
FieldBytes(order, bs) == IF order = "LittleEndian" THEN bs ELSE Reverse(bs)

\* readInt32: the int32 at 0-based offset off of the file, in the given order
readInt32(bytes, off, order) ==
    LET d  == FieldBytes(order, SubSeq(bytes, off + 1, off + 4))
        lo == d[1] + 256 * d[2] + 65536 * d[3]
    IN  IF d[4] >= 128
        THEN ((lo + 16777216 * (d[4] - 128)) - 2147483647) - 1
        ELSE lo + 16777216 * d[4]

(* ------------------------------ the header ---------------------------- *)
\* CosmologyHeader: float64 fields, copied verbatim
CosmoFields == 5

\* unsafe.Sizeof(RawGotetraHeader{}): cosmology record, 7 int64, 2 float64,
\* 4 [3]float32
RawHeaderSize == 8 * CosmoFields + 7 * 8 + 2 * 8 + 4 * 12

\* offset of the vector payload: flag, size field, header
PayloadOffset == 4 + 4 + RawHeaderSize

Zero64 == Digits(0, 8)
Zero32 == Digits(0, 4)
ZeroVec == <<Zero32, Zero32, Zero32>>

\* RawGotetraHeader{}: the zero value
ZeroRaw ==
    [Cosmo |-> [i \in 1..CosmoFields |-> Zero64],
     Count |-> Zero64, CountWidth |-> Zero64, SegmentWidth |-> Zero64,
     GridWidth |-> Zero64, GridCount |-> Zero64, Idx |-> Zero64,
     Cells |-> Zero64, Mass |-> Zero64, TotalWidth |-> Zero64,
     Origin |-> ZeroVec, Width |-> ZeroVec,
     VelocityOrigin |-> ZeroVec, VelocityWidth |-> ZeroVec]

\* GotetraHeader{}: the zero value
ZeroHeader == [raw |-> ZeroRaw, N |-> Zero64]

\* a field of n bytes at 0-based offset off of the header block hb
Field(order, hb, off, n) == FieldBytes(order, SubSeq(hb, off + 1, off + n))

Vec3Field(order, hb, off) ==
    [j \in 1..3 |-> Field(order, hb, off + 4 * (j - 1), 4)]

\* binary.Read(f, order, &hdBuf.RawGotetraHeader) on the RawHeaderSize bytes
\* hb: the fields in declaration order, without padding
DecodeRaw(order, hb) ==
    LET c == 8 * CosmoFields
    IN  [Cosmo |-> [i \in 1..CosmoFields |-> Field(order, hb, 8 * (i - 1), 8)],
         Count          |-> Field(order, hb, c, 8),
         CountWidth     |-> Field(order, hb, c + 8, 8),
         SegmentWidth   |-> Field(order, hb, c + 16, 8),
         GridWidth      |-> Field(order, hb, c + 24, 8),
         GridCount      |-> Field(order, hb, c + 32, 8),
         Idx            |-> Field(order, hb, c + 40, 8),
         Cells          |-> Field(order, hb, c + 48, 8),
         Mass           |-> Field(order, hb, c + 56, 8),
         TotalWidth     |-> Field(order, hb, c + 64, 8),
         Origin         |-> Vec3Field(order, hb, c + 72),
         Width          |-> Vec3Field(order, hb, c + 84),
         VelocityOrigin |-> Vec3Field(order, hb, c + 96),
         VelocityWidth  |-> Vec3Field(order, hb, c + 108)]

\* a mutation of Postprocess that derives N from GridWidth
PostprocessWrongN(raw) ==
    [raw |-> [raw EXCEPT !.Count = Cube64(raw.CountWidth)],
     N   |-> Cube64(raw.GridWidth)]

\* (raw *RawGotetraHeader).Postprocess(hd): the header hd holds afterwards.
\* hd.Count is the embedded raw Count, so the stored Count is overwritten.
Postprocess(raw) ==
    [raw |-> [raw EXCEPT !.Count = Cube64(raw.CountWidth)],
     N   |-> Cube64(raw.SegmentWidth)]

\* a mutation of endianness with the two byte orders exchanged
endiannessSwapped(flag) ==
    IF flag = 0 THEN "BigEndian"
    ELSE IF flag = -1 THEN "LittleEndian"
    ELSE "panic"

\* endianness(flag): the byte order, or "panic"
endianness(flag) ==
    IF flag = 0 THEN "LittleEndian"
    ELSE IF flag = -1 THEN "BigEndian"
    ELSE "panic"

(* ------------------------------ the files ----------------------------- *)
Orders == {"LittleEndian", "BigEndian"}

\* the flag a writer puts in front of a file of the given byte order
FlagOf(order) == IF order = "LittleEndian" THEN 0 ELSE -1

\* A file is named by what its writer did: the flag and the declared size it
\* wrote, the byte order it used, the header values, and how much of the
\* file is on disk (cut).
File(order, flag, size, cw, cnt, sw, gw, gc, cut) ==
    [exists |-> TRUE, order |-> order, flag |-> flag, size |-> size,
     cw |-> cw, cnt |-> cnt, sw |-> sw, gw |-> gw, gc |-> gc, cut |-> cut]

\* a complete, consistent file: GridCount = GridWidth^3, Count = CountWidth^3
Sheet(order, gw, sw) ==
    File(order, FlagOf(order), RawHeaderSize, 2, 8, sw, gw, gw * gw * gw,
         "none")

NoSuchFile ==
    [exists |-> FALSE, order |-> "LittleEndian", flag |-> 0, size |-> 0,
     cw |-> 0, cnt |-> 0, sw |-> 0, gw |-> 0, gc |-> 0, cut |-> "none"]

WellFormedFiles ==
    {Sheet(o, gw, sw) : o \in Orders, gw \in 1..MaxGridWidth,
                        sw \in 1..MaxSegmentWidth}

\* headers whose stored Count is not CountWidth^3, or whose cube overflows
CountFiles ==
    {File(o, FlagOf(o), RawHeaderSize, c[1], c[2], 1, 1, 1, "none") :
        o \in Orders, c \in {<<3, 27>>, <<3, 5>>, <<4194304, 1>>}}

\* GridCount differs from GridWidth^3
GridCountFiles ==
    {File(o, FlagOf(o), RawHeaderSize, 2, 8, 1, 1, gc, "none") :
        o \in Orders, gc \in {2, 8}}

\* a flag that is neither 0 nor -1, and flags that contradict the byte order
BadFlagFiles ==
    {File("LittleEndian", fl, RawHeaderSize, 2, 8, 1, 1, 1, "none") :
        fl \in {1, -2}}
    \cup {File("BigEndian", 0, RawHeaderSize, 2, 8, 1, 1, 1, "none")}

BadSizeFiles ==
    {File(o, FlagOf(o), RawHeaderSize + s * d, 2, 8, 1, 1, 1, "none") :
        o \in Orders, s \in {-1, 1}, d \in 1..MaxSizeDelta}

TruncatedFiles ==
    {File(o, FlagOf(o), RawHeaderSize, 2, 8, 1, 1, 1, cut) :
        o \in Orders, cut \in {"header", "payload"}}

Paths ==
    WellFormedFiles \cup CountFiles \cup GridCountFiles \cup BadFlagFiles
    \cup BadSizeFiles \cup TruncatedFiles \cup {NoSuchFile}

\* the RawGotetraHeader value the writer of file p stored
RawOf(p) ==
    [Cosmo |-> [i \in 1..CosmoFields |-> Digits(66051 * i, 8)],
     Count |-> Digits(p.cnt, 8), CountWidth |-> Digits(p.cw, 8),
     SegmentWidth |-> Digits(p.sw, 8), GridWidth |-> Digits(p.gw, 8),
     GridCount |-> Digits(p.gc, 8), Idx |-> Digits(7, 8),
     Cells |-> Digits(513, 8), Mass |-> Digits(305419896, 8),
     TotalWidth |-> Digits(1684300900, 8),
     Origin |-> [j \in 1..3 |-> Digits(1000 + j, 4)],
     Width |-> [j \in 1..3 |-> Digits(2000 + j, 4)],
     VelocityOrigin |-> [j \in 1..3 |-> Digits(3000 + j, 4)],
     VelocityWidth |-> [j \in 1..3 |-> Digits(4000 + j, 4)]]

\* the i-th vector (0-based) stored in file p: its x component is i
VectorOf(p, i) ==
    <<Digits(i, 4),
      Digits(IF p.order = "LittleEndian" THEN 513 ELSE 1027, 4),
      Digits(p.gw, 4)>>

RECURSIVE Flatten(_)
Flatten(ss) == IF ss = <<>> THEN <<>> ELSE Head(ss) \o Flatten(Tail(ss))

\* block 3 of the format: the fields in declaration order
EncodeRaw(order, raw) ==
    Flatten([i \in 1..CosmoFields |-> PutBytes(order, raw.Cosmo[i])])
    \o PutBytes(order, raw.Count) \o PutBytes(order, raw.CountWidth)
    \o PutBytes(order, raw.SegmentWidth) \o PutBytes(order, raw.GridWidth)
    \o PutBytes(order, raw.GridCount) \o PutBytes(order, raw.Idx)
    \o PutBytes(order, raw.Cells) \o PutBytes(order, raw.Mass)
    \o PutBytes(order, raw.TotalWidth)
    \o Flatten([j \in 1..3 |-> PutBytes(order, raw.Origin[j])])
    \o Flatten([j \in 1..3 |-> PutBytes(order, raw.Width[j])])
    \o Flatten([j \in 1..3 |-> PutBytes(order, raw.VelocityOrigin[j])])
    \o Flatten([j \in 1..3 |-> PutBytes(order, raw.VelocityWidth[j])])

\* block 4 of the format: GridCount consecutive (x, y, z) triples
EncodeVectors(order, p) ==
    [b \in 1..(12 * p.gc) |->
        LET k == (b - 1) \div 4
        IN  PutBytes(order, VectorOf(p, k \div 3)[(k % 3) + 1])[((b - 1) % 4) + 1]]

\* the bytes of file p on disk
FileBytes(p) ==
    LET full == PutInt32("LittleEndian", p.flag) \o PutInt32(p.order, p.size)
                \o EncodeRaw(p.order, RawOf(p)) \o EncodeVectors(p.order, p)
    IN  CASE p.cut = "none"    -> full
          [] p.cut = "header"  -> SubSeq(full, 1, 8 + (RawHeaderSize \div 2))
          [] p.cut = "payload" -> SubSeq(full, 1, Len(full) - 1)

\* the file system: it is only read
FS == [p \in Paths \ {NoSuchFile} |-> FileBytes(p)]

(* ------------------------------ errors -------------------------------- *)
Err(kind, a, b) == [kind |-> kind, a |-> a, b |-> b]
NoErr == Err("nil", 0, 0)

\* failures injected by the file system into one call
Faults == {"none", "seek", "close"}

\* the failures injected into a call on file p: Seek and Close fail only on
\* the smallest complete files
FaultsOf(p) ==
    IF p \in {Sheet(o, 1, 1) : o \in Orders} THEN Faults ELSE {"none"}

(* --------------------------- the header codec ------------------------- *)
\* The outcome of readSheetHeaderAt(file, hdBuf): f is the returned handle
\* ("nil" or "open"), pos its offset, hd the value of *hdBuf afterwards,
\* opened/closed count the handles the call opened and closed, fieldsRead
\* tells whether binary.Read decoded the header fields, panic whether the
\* call panicked.
HeaderResult(f, order, err, hdr, opened, fieldsRead, pos, panic) ==
    [f |-> f, order |-> order, err |-> err, hd |-> hdr, opened |-> opened,
     closed |-> 0, fieldsRead |-> fieldsRead, pos |-> pos, panic |-> panic]

\* a mutation of the size check that accepts a size that is too large
sizeMismatchTooSmallOnly(headerSize) == headerSize < RawHeaderSize

\* headerSize != int32(unsafe.Sizeof(RawGotetraHeader{}))
sizeMismatch(headerSize) == headerSize # RawHeaderSize

\* readSheetHeaderAt from the size check on: the Seek to offset 8, the
\* binary.Read of the fields and Postprocess
headerAfterSize(bytes, order, headerSize, hdBuf, fault) ==
    IF sizeMismatch(headerSize)
    THEN HeaderResult("nil", "LittleEndian",
                      Err("FormatError:size", RawHeaderSize, headerSize),
                      hdBuf, 1, FALSE, 8, FALSE)
    ELSE IF fault = "seek"
    THEN HeaderResult("nil", "LittleEndian", Err("IOError:seek", 0, 0),
                      hdBuf, 1, FALSE, 8, FALSE)
    ELSE IF Len(bytes) < PayloadOffset
    THEN HeaderResult("nil", "LittleEndian", Err("IOError:read", 0, 0),
                      hdBuf, 1, FALSE, Len(bytes), FALSE)
    ELSE HeaderResult("open", order, NoErr,
                      Postprocess(DecodeRaw(order,
                          SubSeq(bytes, 9, PayloadOffset))),
                      1, TRUE, PayloadOffset, FALSE)

\* readSheetHeaderAt from the byte order on: endianness has panicked, or
\* the size field is read in that order
headerAfterFlag(bytes, order, hdBuf, fault) ==
    IF order = "panic"
    THEN HeaderResult("nil", "LittleEndian",
                      Err("panic:Unrecognized endianness flag.", 0, 0),
                      hdBuf, 1, FALSE, 4, TRUE)
    ELSE headerAfterSize(bytes, order, readInt32(bytes, 4, order), hdBuf,
                         fault)

\* readSheetHeaderAt(file, hdBuf)
readSheetHeaderAt(file, hdBuf, fault) ==
    IF ~file.exists
    THEN HeaderResult("nil", "LittleEndian", Err("IOError:open", 0, 0),
                      hdBuf, 0, FALSE, -1, FALSE)
    ELSE headerAfterFlag(FS[file],
                         endianness(readInt32(FS[file], 0, "LittleEndian")),
                         hdBuf, fault)

\* readSheetHeaderAt tabulated over the files and faults.  The call writes
\* *hdBuf only where it overwrites all of it (fieldsRead), so the table is
\* computed for a zero header and the caller's header is put back otherwise.
HeaderTable ==
    [p \in Paths, fl \in Faults |-> readSheetHeaderAt(p, ZeroHeader, fl)]

withHeader(r, hdBuf) == IF r.fieldsRead THEN r ELSE [r EXCEPT !.hd = hdBuf]

HeaderAt(file, hdBuf, fault) == withHeader(HeaderTable[file, fault], hdBuf)

\* ReadSheetHeaderAt after readSheetHeaderAt returned r
closeHeader(r, fault) ==
    IF r.panic \/ r.err # NoErr
    THEN [err |-> r.err, hd |-> r.hd, opened |-> r.opened,
          closed |-> 0, fieldsRead |-> r.fieldsRead, hdErr |-> r.err,
          panic |-> r.panic]
    ELSE [err |-> IF fault = "close" THEN Err("IOError:close", 0, 0)
                  ELSE NoErr,
          hd |-> r.hd, opened |-> r.opened, closed |-> 1,
          fieldsRead |-> r.fieldsRead, hdErr |-> r.err, panic |-> FALSE]

\* ReadSheetHeaderAt(file, hdBuf)
ReadSheetHeaderAt(file, hdBuf, fault) ==
    closeHeader(HeaderAt(file, hdBuf, fault), fault)

(* ------------------------- the payload reader ------------------------- *)
\* readVecAsByte(f, order, xsBuf): len(xsBuf) vectors from the payload
\* offset, in file order; a short file is a read error
readVecAsByte(bytes, order, xsBuf) ==
    IF Len(bytes) < PayloadOffset + 12 * Len(xsBuf)
    THEN [err |-> Err("IOError:read", 0, 0), xs |-> xsBuf]
    ELSE [err |-> NoErr,
          xs  |-> [i \in 1..Len(xsBuf) |->
                    [j \in 1..3 |->
                      FieldBytes(order,
                          SubSeq(bytes,
                              PayloadOffset + 12 * (i - 1) + 4 * (j - 1) + 1,
                              PayloadOffset + 12 * (i - 1) + 4 * j))]]]

\* The outcome of readSheetPositionsAt(file, xsBuf): xs is the content of
\* xsBuf afterwards, wrote the number of leading vectors of xsBuf the call
\* wrote, hdErr the error readSheetHeaderAt returned inside.
PositionsResult(err, xs, wrote, h, closed) ==
    [err |-> err, xs |-> xs, wrote |-> wrote, opened |-> h.opened,
     closed |-> closed, fieldsRead |-> h.fieldsRead, hdErr |-> h.err,
     panic |-> h.panic]

\* readSheetPositionsAt after readVecAsByte returned v: the Close
positionsAfterVectors(h, v, n, fault) ==
    IF v.err # NoErr
    THEN PositionsResult(v.err, v.xs, 0, h, 0)
    ELSE IF fault = "close"
    THEN PositionsResult(Err("IOError:close", 0, 0), v.xs, n, h, 1)
    ELSE PositionsResult(NoErr, v.xs, n, h, 1)

\* a mutation of readSheetPositionsAt without the length check
positionsAfterHeaderUnchecked(bytes, xsBuf, fault, h) ==
    IF h.panic
    THEN PositionsResult(h.err, xsBuf, 0, h, 0)
    ELSE IF h.err # NoErr
    THEN PositionsResult(NoErr, xsBuf, 0, h, 0)
    ELSE positionsAfterVectors(h, readVecAsByte(bytes, h.order, xsBuf),
                               Len(xsBuf), fault)

\* readSheetPositionsAt after readSheetHeaderAt returned h.  A header error
\* is answered with a nil error (line 155); the handle is closed on the
\* last path only.
positionsAfterHeader(bytes, xsBuf, fault, h) ==
    IF h.panic
    THEN PositionsResult(h.err, xsBuf, 0, h, 0)
    ELSE IF h.err # NoErr
    THEN PositionsResult(NoErr, xsBuf, 0, h, 0)
    ELSE IF h.hd.raw.GridCount # Digits(Len(xsBuf), 8)
    THEN PositionsResult(
             Err("FormatError:count", Len(xsBuf),
                 IF Small(h.hd.raw.GridCount)
                 THEN ToInt(h.hd.raw.GridCount) ELSE -1),
             xsBuf, 0, h, 0)
    ELSE positionsAfterVectors(h, readVecAsByte(bytes, h.order, xsBuf),
                               Len(xsBuf), fault)

\* readSheetPositionsAt(file, xsBuf)
readSheetPositionsAt(file, xsBuf, fault) ==
    positionsAfterHeader(IF file.exists THEN FS[file] ELSE <<>>, xsBuf,
                         fault, HeaderAt(file, ZeroHeader, fault))

\* the lengths a buffer's sheet array can have
SheetLens == {gw * gw * gw : gw \in 1..MaxGridWidth}

\* readSheetPositionsAt tabulated over the files, faults and len(xsBuf): the
\* vectors the call does not write keep the caller's values
PositionsTable ==
    [p \in Paths, fl \in Faults, n \in SheetLens |->
        readSheetPositionsAt(p, [i \in 1..n |-> ZeroVec], fl)]

withVectors(r, xsBuf) ==
    [r EXCEPT !.xs = [i \in 1..Len(xsBuf) |->
                         IF i <= r.wrote THEN r.xs[i] ELSE xsBuf[i]]]

PositionsAt(file, xsBuf, fault) ==
    withVectors(PositionsTable[file, fault, Len(xsBuf)], xsBuf)

(* ------------------------------ the buffer ---------------------------- *)
VARIABLES
    buf,    \* the GotetraBuffer: made, open, sheet, out, sw, gw
    hd,     \* the caller's GotetraHeader handed to ReadSheetHeaderAt
    call,   \* what the last call did and returned
    cycled  \* a Read of the buffer has succeeded and been closed

vars == <<buf, hd, call, cycled>>

NoBuffer ==
    [made |-> FALSE, open |-> FALSE, sheet |-> <<>>, out |-> <<>>,
     sw |-> 0, gw |-> 0]

\* the record of one call: outcome is "ok", "error" or "panic"; err the
\* error returned or the panic raised; ret the value returned beside the
\* error; wasOpen is buf.open when the call began
Call(op, fname, fault, outcome, err, ret, r, wasOpen) ==
    [op |-> op, fname |-> fname, fault |-> fault, outcome |-> outcome,
     err |-> err, ret |-> ret, opened |-> r.opened, closed |-> r.closed,
     fieldsRead |-> r.fieldsRead, hdErr |-> r.hdErr, wasOpen |-> wasOpen]

NoIO == [opened |-> 0, closed |-> 0, fieldsRead |-> FALSE, hdErr |-> NoErr]

Init ==
    /\ buf = NoBuffer
    /\ hd = ZeroHeader
    /\ call = Call("none", NoSuchFile, "none", "ok", NoErr, "none", NoIO,
                   FALSE)
    /\ cycled = FALSE

\* a mutation of the loop of Read that strides through the sheet
RECURSIVE ExtractStrided(_, _, _, _, _)
ExtractStrided(sw, gw, sheet, out, k) ==
    IF k >= sw * sw * sw THEN [out |-> out, panic |-> FALSE]
    ELSE LET x  == k % sw
             y  == (k \div sw) % sw
             z  == k \div (sw * sw)
             si == x + y * sw + z * sw * sw
             gi == (gw \div sw) * (x + y * gw + z * gw * gw)
         IN  IF gi >= Len(sheet) \/ si >= Len(out)
             THEN [out |-> out, panic |-> TRUE]
             ELSE ExtractStrided(sw, gw, sheet,
                          [out EXCEPT ![si + 1] = sheet[gi + 1]], k + 1)

\* a mutation of the loop of Read that wraps the sheet index around
RECURSIVE ExtractWrapped(_, _, _, _, _)
ExtractWrapped(sw, gw, sheet, out, k) ==
    IF k >= sw * sw * sw THEN [out |-> out, panic |-> FALSE]
    ELSE LET x  == k % sw
             y  == (k \div sw) % sw
             z  == k \div (sw * sw)
             si == x + y * sw + z * sw * sw
             gi == (x + y * gw + z * gw * gw) % Len(sheet)
         IN  IF gi >= Len(sheet) \/ si >= Len(out)
             THEN [out |-> out, panic |-> TRUE]
             ELSE ExtractWrapped(sw, gw, sheet,
                          [out EXCEPT ![si + 1] = sheet[gi + 1]], k + 1)

\* the loop of Read, iteration k = x + y*sw + z*sw*sw onwards: the out array
\* afterwards, and whether an index was out of range
RECURSIVE Extract(_, _, _, _, _)
Extract(sw, gw, sheet, out, k) ==
    IF k >= sw * sw * sw THEN [out |-> out, panic |-> FALSE]
    ELSE LET x  == k % sw
             y  == (k \div sw) % sw
             z  == k \div (sw * sw)
             si == x + y * sw + z * sw * sw
             gi == x + y * gw + z * gw * gw
         IN  IF gi >= Len(sheet) \/ si >= Len(out)
             THEN [out |-> out, panic |-> TRUE]
             ELSE Extract(sw, gw, sheet,
                          [out EXCEPT ![si + 1] = sheet[gi + 1]], k + 1)

\* the I/O part of a call's record
IO(r) == [opened |-> r.opened, closed |-> r.closed,
          fieldsRead |-> r.fieldsRead, hdErr |-> r.hdErr]

\* NewGotetraBuffer after ReadSheetHeaderAt returned r with the header's
\* SegmentWidth sw and GridWidth gw
newBuffer(fname, fault, r, sw, gw) ==
    IF r.panic
    THEN /\ call' = Call("NewGotetraBuffer", fname, fault, "panic",
                         r.err, "nil", IO(r), FALSE)
         /\ buf' = buf
    ELSE IF r.err # NoErr
    THEN /\ call' = Call("NewGotetraBuffer", fname, fault, "error",
                         r.err, "nil", IO(r), FALSE)
         /\ buf' = buf
    ELSE IF ~(Small(Cube64(gw)) /\ Small(Cube64(sw)))
    THEN /\ call' = Call("NewGotetraBuffer", fname, fault, "panic",
                         Err("panic:makeslice: len out of range", 0, 0),
                         "nil", IO(r), FALSE)
         /\ buf' = buf
    ELSE /\ call' = Call("NewGotetraBuffer", fname, fault, "ok",
                         NoErr, "buf", IO(r), FALSE)
         /\ buf' = [made  |-> TRUE, open |-> FALSE,
                    sheet |-> [i \in 1..ToInt(Cube64(gw)) |-> ZeroVec],
                    out   |-> [i \in 1..ToInt(Cube64(sw)) |-> ZeroVec],
                    sw    |-> ToInt(sw), gw |-> ToInt(gw)]

newBufferFrom(fname, fault, r) ==
    newBuffer(fname, fault, r, r.hd.raw.SegmentWidth, r.hd.raw.GridWidth)

\* NewGotetraBuffer(fname)
NewGotetraBuffer(fname, fault) ==
    /\ ~buf.made
    /\ newBufferFrom(fname, fault, ReadSheetHeaderAt(fname, ZeroHeader, fault))
    /\ UNCHANGED <<hd, cycled>>

\* (buf *GotetraBuffer).IsOpen()
IsOpen ==
    /\ buf.made
    /\ call' = Call("IsOpen", NoSuchFile, "none", "ok", NoErr,
                    IF buf.open THEN "true" ELSE "false", NoIO, buf.open)
    /\ UNCHANGED <<buf, hd, cycled>>

\* a mutation of Read that takes the segment width of the file it read
finishReadAdoptsWidth(fname, fault, r, e) ==
    IF r.panic
    THEN /\ call' = Call("Read", fname, fault, "panic", r.err, "nil",
                         IO(r), buf.open)
         /\ buf' = [buf EXCEPT !.open = TRUE]
    ELSE IF r.err # NoErr
    THEN /\ call' = Call("Read", fname, fault, "error", r.err, "nil",
                         IO(r), buf.open)
         /\ buf' = [buf EXCEPT !.open = TRUE, !.sheet = r.xs]
    ELSE IF e.panic
    THEN /\ call' = Call("Read", fname, fault, "panic",
                         Err("panic:index out of range", 0, 0), "nil",
                         IO(r), buf.open)
         /\ buf' = [buf EXCEPT !.open = TRUE, !.sheet = r.xs, !.out = e.out]
    ELSE /\ call' = Call("Read", fname, fault, "ok", NoErr, "out", IO(r),
                         buf.open)
         /\ buf' = [buf EXCEPT !.open = TRUE, !.sheet = r.xs, !.out = e.out,
                               !.sw = IF fname.exists THEN fname.sw ELSE @]

\* Read after readSheetPositionsAt returned r and the loop returned e
finishRead(fname, fault, r, e) ==
    IF r.panic
    THEN /\ call' = Call("Read", fname, fault, "panic", r.err, "nil",
                         IO(r), buf.open)
         /\ buf' = [buf EXCEPT !.open = TRUE]
    ELSE IF r.err # NoErr
    THEN /\ call' = Call("Read", fname, fault, "error", r.err, "nil",
                         IO(r), buf.open)
         /\ buf' = [buf EXCEPT !.open = TRUE, !.sheet = r.xs]
    ELSE IF e.panic
    THEN /\ call' = Call("Read", fname, fault, "panic",
                         Err("panic:index out of range", 0, 0), "nil",
                         IO(r), buf.open)
         /\ buf' = [buf EXCEPT !.open = TRUE, !.sheet = r.xs, !.out = e.out]
    ELSE /\ call' = Call("Read", fname, fault, "ok", NoErr, "out", IO(r),
                         buf.open)
         /\ buf' = [buf EXCEPT !.open = TRUE, !.sheet = r.xs, !.out = e.out]

extractThenFinish(fname, fault, r) ==
    finishRead(fname, fault, r, Extract(buf.sw, buf.gw, r.xs, buf.out, 0))

\* the body of Read after the guard against an open buffer
ReadBody(fname, fault) ==
    extractThenFinish(fname, fault, PositionsAt(fname, buf.sheet, fault))

\* a mutation of Read without the guard against an open buffer
ReadUnguarded(fname, fault) ==
    /\ buf.made
    /\ ReadBody(fname, fault)
    /\ UNCHANGED <<hd, cycled>>

\* (buf *GotetraBuffer).Read(fname)
Read(fname, fault) ==
    /\ buf.made
    /\ IF buf.open
       THEN /\ call' = Call("Read", fname, fault, "panic",
                            Err("panic:Buffer already open.", 0, 0), "nil",
                            NoIO, TRUE)
            /\ buf' = buf
       ELSE ReadBody(fname, fault)
    /\ UNCHANGED <<hd, cycled>>

\* a mutation of Close that leaves the buffer open
CloseKeepsOpen ==
    /\ buf.made
    /\ IF ~buf.open
       THEN /\ call' = Call("Close", NoSuchFile, "none", "panic",
                            Err("panic:Buffer already closed.", 0, 0),
                            "none", NoIO, FALSE)
            /\ buf' = buf
       ELSE /\ call' = Call("Close", NoSuchFile, "none", "ok", NoErr,
                            "none", NoIO, TRUE)
            /\ buf' = buf
    /\ UNCHANGED <<hd, cycled>>

\* a mutation of Close that zeroes the out array
CloseClearsOut ==
    /\ buf.made
    /\ IF ~buf.open
       THEN /\ call' = Call("Close", NoSuchFile, "none", "panic",
                            Err("panic:Buffer already closed.", 0, 0),
                            "none", NoIO, FALSE)
            /\ buf' = buf
       ELSE /\ call' = Call("Close", NoSuchFile, "none", "ok", NoErr,
                            "none", NoIO, TRUE)
            /\ buf' = [buf EXCEPT !.open = FALSE,
                                  !.out = [i \in 1..Len(buf.out) |-> ZeroVec]]
    /\ cycled' = (cycled \/ (call.op = "Read" /\ call.outcome = "ok"))
    /\ UNCHANGED hd

\* (buf *GotetraBuffer).Close()
Close ==
    /\ buf.made
    /\ IF ~buf.open
       THEN /\ call' = Call("Close", NoSuchFile, "none", "panic",
                            Err("panic:Buffer already closed.", 0, 0),
                            "none", NoIO, FALSE)
            /\ buf' = buf
       ELSE /\ call' = Call("Close", NoSuchFile, "none", "ok", NoErr,
                            "none", NoIO, TRUE)
            /\ buf' = [buf EXCEPT !.open = FALSE]
    /\ cycled' = (cycled \/ (call.op = "Read" /\ call.outcome = "ok"))
    /\ UNCHANGED hd

Next ==
    \/ \E p \in Paths : \E fl \in FaultsOf(p) : NewGotetraBuffer(p, fl)
    \/ \E p \in Paths : \E fl \in FaultsOf(p) : Read(p, fl)
    \/ IsOpen
    \/ Close

Spec == Init /\ [][Next]_vars

\* a caller's ReadSheetHeaderAt has returned r
recordDecode(file, fault, r) ==
    /\ hd' = r.hd
    /\ call' = Call("ReadSheetHeaderAt", file, fault,
                    IF r.panic THEN "panic"
                    ELSE IF r.err # NoErr THEN "error" ELSE "ok",
                    r.err, "none", IO(r), FALSE)

\* the header decode on its own: a caller decodes files into one header
DecodeHeader(file, fault) ==
    /\ recordDecode(file, fault, ReadSheetHeaderAt(file, hd, fault))
    /\ UNCHANGED <<buf, cycled>>

NextCodec == \E p \in Paths : \E fl \in FaultsOf(p) : DecodeHeader(p, fl)

SpecCodec == Init /\ [][NextCodec]_vars

(* ----------------------------- cell bounds --------------------------- *)
\* A float64 or float32 is held as its IEEE-754 bytes.  The arithmetic of
\* CellBounds is followed for floats that are multiples of 1/Unit of small
\* magnitude: such a float is valued by the integer number of 1/Unit it
\* holds, and float32 sums of them are exact.
FracBits == 4

RECURSIVE Pow2(_)
Pow2(n) == IF n = 0 THEN 1 ELSE 2 * Pow2(n - 1)

Unit == Pow2(FracBits)

RECURSIVE BitLen(_)
\* the number of bits of the natural number n
BitLen(n) == IF n = 0 THEN 0 ELSE 1 + BitLen(n \div 2)

Abs(x) == IF x < 0 THEN -x ELSE x

\* the bytes (least significant first) of the float32 of value x/Unit:
\* sign bit, 8 exponent bits biased by 127, 23 fraction bits
Float32Bytes(x) ==
    IF x = 0 THEN Zero32
    ELSE LET len  == BitLen(Abs(x))
             e    == (len - 1 - FracBits) + 127
             frac == (Abs(x) - Pow2(len - 1)) * Pow2(24 - len)
         IN  Digits(frac + (e % 2) * 8388608, 3)
             \o <<(e \div 2) + (IF x < 0 THEN 128 ELSE 0)>>

\* the bytes of the float64 of value x/Unit: sign bit, 11 exponent bits
\* biased by 1023, 52 fraction bits of which the low 32 are zero
Float64Bytes(x) ==
    IF x = 0 THEN Zero64
    ELSE LET len  == BitLen(Abs(x))
             e    == (len - 1 - FracBits) + 1023
             frac == (Abs(x) - Pow2(len - 1)) * Pow2(21 - len)
         IN  <<0, 0, 0, 0>> \o Digits(frac % 65536, 2)
             \o <<(frac \div 65536) + 16 * (e % 16)>>
             \o <<(e \div 16) + (IF x < 0 THEN 128 ELSE 0)>>

\* significand * 2^shift for the shifts that leave an integer
Scaled(significand, shift) ==
    IF shift >= 0 THEN significand * Pow2(shift)
    ELSE significand \div Pow2(-shift)

\* the value of a float32, in 1/Unit
Float32Fix(d) ==
    LET e    == (d[3] \div 128) + 2 * (d[4] % 128)
        frac == d[1] + 256 * d[2] + 65536 * (d[3] % 128)
        mag  == Scaled(8388608 + frac, (e - 127 - 23) + FracBits)
    IN  IF e = 0 /\ frac = 0 THEN 0
        ELSE IF d[4] >= 128 THEN -mag ELSE mag

\* the value of a float64 whose low 32 fraction bits are zero, in 1/Unit
Float64Fix(d) ==
    LET e    == (d[7] \div 16) + 16 * (d[8] % 128)
        frac == d[5] + 256 * d[6] + 65536 * (d[7] % 16)
        mag  == Scaled(1048576 + frac, (e - 1023 - 20) + FracBits)
    IN  IF e = 0 /\ frac = 0 THEN 0
        ELSE IF d[8] >= 128 THEN -mag ELSE mag

\* hd.Origin[j] + hd.Width[j] in float32: exact for these values
Add32(a, b) == a + b

\* int(math.Floor(a / cellWidth)) with cellWidth = totalWidth /
\* float64(cells), for totalWidth > 0.  With cells = 0 cellWidth is +Inf
\* and the quotient is a zero.  Otherwise totalWidth / cells is exact for
\* the cells the model asks for, so a / cellWidth is the rounding of the
\* ratio a*cells / totalWidth of two small integers, whose floor is the
\* floor of the ratio.
QuotFloor(a, totalWidth, cells) ==
    IF cells = 0 THEN 0 ELSE (a * cells) \div totalWidth

\* a mutation of CellBounds without the 1 added to the far index
CellBoundsNoBias(hdr, cells) ==
    LET t == Float64Fix(hdr.raw.TotalWidth)
        o == [j \in 1..3 |-> Float32Fix(hdr.raw.Origin[j])]
        w == [j \in 1..3 |-> Float32Fix(hdr.raw.Width[j])]
    IN  [Origin |-> [j \in 1..3 |-> QuotFloor(o[j], t, cells)],
         Width  |-> [j \in 1..3 |->
                       QuotFloor(Add32(o[j], w[j]), t, cells)
                       - QuotFloor(o[j], t, cells)]]

\* (hd *GotetraHeader).CellBounds(cells): the CellBounds returned
CellBounds(hdr, cells) ==
    LET t == Float64Fix(hdr.raw.TotalWidth)
        o == [j \in 1..3 |-> Float32Fix(hdr.raw.Origin[j])]
        w == [j \in 1..3 |-> Float32Fix(hdr.raw.Width[j])]
    IN  [Origin |-> [j \in 1..3 |-> QuotFloor(o[j], t, cells)],
         Width  |-> [j \in 1..3 |->
                       (1 + QuotFloor(Add32(o[j], w[j]), t, cells))
                       - QuotFloor(o[j], t, cells)]]

\* the headers CellBounds is asked about: TotalWidth 100 or 8, boxes given
\* in 1/Unit per axis
TotalWidths == {100 * Unit, 8 * Unit}

OriginTriples ==
    {<<5 * Unit, 5 * Unit, 5 * Unit>>,
     <<0, (5 * Unit) \div 2, -3 * Unit>>,
     <<95 * Unit, (199 * Unit) \div 2, 100 * Unit>>}

WidthTriples ==
    {<<12 * Unit, 12 * Unit, 12 * Unit>>,
     <<0, Unit \div 2, 5 * Unit>>,
     <<Unit, 2 * Unit, 3 * Unit>>}

CellHeaders ==
    {[raw |-> [ZeroRaw EXCEPT
                  !.TotalWidth = Float64Bytes(t),
                  !.Origin = [j \in 1..3 |-> Float32Bytes(o[j])],
                  !.Width  = [j \in 1..3 |-> Float32Bytes(w[j])]],
      N   |-> Zero64] :
        t \in TotalWidths, o \in OriginTriples, w \in WidthTriples}

RECURSIVE OddPart(_)
OddPart(n) == IF n % 2 = 0 THEN OddPart(n \div 2) ELSE n

\* the cells asked for a header: zero, negative and positive counts for
\* which totalWidth / cells is exact
CellCounts(hdr) ==
    {c \in (-2)..MaxCells :
        c = 0 \/ Float64Fix(hdr.raw.TotalWidth) % OddPart(Abs(c)) = 0}

\* a caller holds one header and asks for its cell bounds
InitCells ==
    /\ buf = NoBuffer
    /\ hd \in CellHeaders
    /\ call = [op |-> "none", cells |-> 0, outcome |-> "ok", err |-> NoErr,
               ret |-> "nil"]
    /\ cycled = FALSE

CallCellBounds(cells) ==
    /\ call' = [op |-> "CellBounds", cells |-> cells, outcome |-> "ok",
                err |-> NoErr, ret |-> CellBounds(hd, cells)]
    /\ UNCHANGED <<buf, hd, cycled>>

NextCells == \E c \in CellCounts(hd) : CallCellBounds(c)

SpecCells == InitCells /\ [][NextCells]_vars

(* ------------------------------ properties ---------------------------- *)
\* the file's flag is the one that belongs to its byte order
Flagged(p) == p.exists /\ p.flag = FlagOf(p.order)

\* the header of file p can be decoded under the given fault
Decodable(p, fault) ==
    /\ Flagged(p)
    /\ p.size = RawHeaderSize
    /\ p.cut # "header"
    /\ fault # "seek"

\* n^3 as an int64: the cube itself while it is small; 4194304 = 2^22 and
\* its multiples have a cube that is a multiple of 2^64
CubeOf(n) ==
    IF n <= 1290 THEN Digits(n * n * n, 8)
    ELSE IF n % 4194304 = 0 THEN Zero64 ELSE <<>>

\* the corner sub-cube of side sw of the vectors of file p laid out as a
\* grid of side gw
CornerOf(p, sw, gw) ==
    [k \in 1..(sw * sw * sw) |->
        VectorOf(p, ((k - 1) % sw) + (((k - 1) \div sw) % sw) * gw
                    + ((k - 1) \div (sw * sw)) * gw * gw)]

\* C1: Read on an open buffer and Close on a closed buffer panic with the
\* illegal-state message, and neither changes the open flag or the arrays.
C1_MisuseIsFatal ==
    [][/\ (call'.op = "Read" /\ buf.open) =>
            /\ call'.outcome = "panic"
            /\ call'.err.kind = "panic:Buffer already open."
            /\ buf' = buf
       /\ (call'.op = "Close" /\ ~buf.open) =>
            /\ call'.outcome = "panic"
            /\ call'.err.kind = "panic:Buffer already closed."
            /\ buf' = buf]_vars

C1_Witness ==
    /\ call.op = "Read" /\ call.wasOpen /\ call.outcome = "panic"
    /\ buf.open /\ buf.out[1] # ZeroVec

\* C2: a Read that began on a closed buffer and returned an error leaves the
\* buffer closed.
C2_FailedReadLeavesClosed ==
    (call.op = "Read" /\ ~call.wasOpen /\ call.outcome = "error")
        => ~buf.open

\* C3: a new buffer is closed; a Read of a closed buffer from a complete
\* file of the buffer's dimensions succeeds, opens the buffer and returns
\* the out array refilled from that file; Close of an open buffer closes it.
C3_ReadCloseCycle ==
    [][/\ (call'.op = "NewGotetraBuffer" /\ call'.outcome = "ok") =>
            (buf'.made /\ ~buf'.open)
       /\ (/\ call'.op = "Read" /\ ~buf.open /\ call'.fault = "none"
           /\ call'.fname \in WellFormedFiles
           /\ call'.fname.gw = buf.gw /\ call'.fname.sw = buf.sw
           /\ buf.sw <= buf.gw) =>
            /\ call'.outcome = "ok" /\ call'.ret = "out"
            /\ buf'.open
            /\ buf'.out = CornerOf(call'.fname, buf.sw, buf.gw)
       /\ (call'.op = "Close" /\ buf.open) =>
            (call'.outcome = "ok" /\ ~buf'.open)]_vars

C3_Witness ==
    /\ cycled /\ call.op = "Read" /\ call.outcome = "ok" /\ buf.open
    /\ call.fname \in WellFormedFiles
    /\ buf.out = CornerOf(call.fname, buf.sw, buf.gw)

\* C4: after a Read that returned no error, with sw <= gw, out[x + y*sw +
\* z*sw^2] = sheet[x + y*gw + z*gw^2] for all 0 <= x, y, z < sw; when the
\* file's header decoded, sheet holds the file's vectors in file order; for
\* gw = 4, sw = 2 and vectors whose x component is their index, out[0..3]
\* hold the vectors 0, 1, 4, 5.
C4_CornerSubCube ==
    (call.op = "Read" /\ call.outcome = "ok" /\ buf.sw <= buf.gw) =>
        /\ \A x, y, z \in 0..(buf.sw - 1) :
              buf.out[x + y * buf.sw + z * buf.sw * buf.sw + 1]
                  = buf.sheet[x + y * buf.gw + z * buf.gw * buf.gw + 1]
        /\ Decodable(call.fname, call.fault) =>
              \A i \in 1..Len(buf.sheet) :
                  buf.sheet[i] = VectorOf(call.fname, i - 1)
        /\ (Decodable(call.fname, call.fault) /\ buf.gw = 4 /\ buf.sw = 2) =>
              <<buf.out[1][1], buf.out[2][1], buf.out[3][1], buf.out[4][1]>>
                  = <<Digits(0, 4), Digits(1, 4), Digits(4, 4), Digits(5, 4)>>

C4_Witness ==
    /\ call.op = "Read" /\ call.outcome = "ok"
    /\ Decodable(call.fname, call.fault)
    /\ buf.gw = 4 /\ buf.sw = 2
    /\ buf.out[3][1] = Digits(4, 4)

\* C5: when the header decode inside Read fails with an error, Read returns
\* an error.
C5_HeaderErrorSurfaced ==
    (/\ call.op = "Read" /\ ~call.wasOpen
     /\ call.hdErr # NoErr /\ call.outcome # "panic")
        => (call.outcome = "error" /\ call.err # NoErr)

\* C6: when a call returns, every handle it opened has been closed once.
C6_HandlesClosed == call.opened = call.closed

\* C7: decoding a file whose flag is neither 0 nor -1 returns a FormatError
\* and decodes no header field.
C7_BadFlagIsFormatError ==
    (/\ call.op = "ReadSheetHeaderAt" /\ call.fname.exists
     /\ call.fname.flag \notin {0, -1})
        => /\ call.outcome = "error"
           /\ call.err.kind = "FormatError:flag"
           /\ ~call.fieldsRead

\* C8: a declared header size other than the size of RawGotetraHeader makes
\* the decode return a FormatError naming both sizes, without reading the
\* header fields and without touching the caller's header; with the exact
\* size the decode goes on to read the fields.
C8_SizeChecked ==
    [][(call'.op = "ReadSheetHeaderAt" /\ Flagged(call'.fname)) =>
          IF call'.fname.size # RawHeaderSize
          THEN /\ call'.outcome = "error"
               /\ call'.err = Err("FormatError:size", RawHeaderSize,
                                  call'.fname.size)
               /\ ~call'.fieldsRead
               /\ hd' = hd
          ELSE /\ call'.err.kind # "FormatError:size"
               /\ Decodable(call'.fname, call'.fault) => call'.fieldsRead]_vars

C8_Witness ==
    /\ call.op = "ReadSheetHeaderAt"
    /\ call.err.kind = "FormatError:size"
    /\ call.fname.size = RawHeaderSize + 1
    /\ call.fname.order = "BigEndian"
    /\ hd # ZeroHeader

\* C9: a Read whose file decodes but holds a GridCount other than the
\* length of sheet returns a FormatError naming both lengths and leaves
\* sheet and out as they were.
C9_CountMismatch ==
    [][(/\ call'.op = "Read" /\ ~buf.open
        /\ Decodable(call'.fname, call'.fault)
        /\ call'.fname.gc # Len(buf.sheet)) =>
          /\ call'.outcome = "error"
          /\ call'.err = Err("FormatError:count", Len(buf.sheet),
                             call'.fname.gc)
          /\ buf'.sheet = buf.sheet
          /\ buf'.out = buf.out]_vars

C9_Witness ==
    /\ call.op = "Read" /\ call.err.kind = "FormatError:count"
    /\ call.fname.gc > Len(buf.sheet)
    /\ buf.sheet[1] # ZeroVec /\ buf.out[1] # ZeroVec

\* C10 as stated: a decoded header holds every stored raw field, the stored
\* Count included, and Count = CountWidth^3, N = SegmentWidth^3.
C10_RoundTripStoredCount ==
    (call.op = "ReadSheetHeaderAt" /\ call.fieldsRead /\ Flagged(call.fname))
        => /\ hd.raw = RawOf(call.fname)
           /\ hd.raw.Count = CubeOf(call.fname.cw)
           /\ hd.N = CubeOf(call.fname.sw)

\* C10 as amended: a decoded header holds every stored raw field but Count;
\* Count is CountWidth^3 and N is SegmentWidth^3, both modulo 2^64.
C10_RoundTrip ==
    (call.op = "ReadSheetHeaderAt" /\ call.fieldsRead /\ Flagged(call.fname))
        => /\ hd.raw = [RawOf(call.fname) EXCEPT
                           !.Count = CubeOf(call.fname.cw)]
           /\ hd.N = CubeOf(call.fname.sw)

C10_Witness ==
    /\ call.op = "ReadSheetHeaderAt" /\ call.fieldsRead
    /\ Flagged(call.fname)
    /\ call.fname.order = "BigEndian"
    /\ call.fname.cnt = 5
    /\ hd.raw.Count = Digits(27, 8)
    /\ hd.raw.Idx = Digits(7, 8)

CellIndices == (-4 * MaxCells)..(12 * MaxCells)

\* C12: for cells > 0, per axis j, origin_j = floor(origin[j] / cellWidth)
\* and origin_j + width_j - 1 = floor((origin[j] + width[j]) / cellWidth)
\* with cellWidth = totalWidth / cells, so every cell the box
\* [origin[j], origin[j] + width[j]] overlaps lies in
\* [origin_j, origin_j + width_j); totalWidth = 100, cells = 10, origin = 5,
\* width = 12 gives origin_j = 0 and width_j = 2; the header is unchanged.
C12_CellBounds ==
    [][(call'.op = "CellBounds" /\ call'.cells > 0) =>
          /\ \A j \in 1..3 :
                LET t   == Float64Fix(hd.raw.TotalWidth)
                    lo  == Float32Fix(hd.raw.Origin[j]) * call'.cells
                    hi  == (Float32Fix(hd.raw.Origin[j])
                            + Float32Fix(hd.raw.Width[j])) * call'.cells
                    og  == call'.ret.Origin[j]
                    far == (call'.ret.Origin[j] + call'.ret.Width[j]) - 1
                IN  /\ og * t <= lo /\ lo < (og + 1) * t
                    /\ far * t <= hi /\ hi < (far + 1) * t
                    /\ \A c \in CellIndices :
                          (c * t <= hi /\ (c + 1) * t > lo) =>
                              (og <= c /\ c <= far)
                    /\ (/\ t = 100 * Unit /\ call'.cells = 10
                        /\ hd.raw.Origin[j] = <<0, 0, 160, 64>>
                        /\ hd.raw.Width[j] = <<0, 0, 64, 65>>) =>
                          (og = 0 /\ call'.ret.Width[j] = 2)
          /\ hd' = hd]_vars

C12_Witness ==
    /\ call.op = "CellBounds" /\ call.cells = 10 /\ call.outcome = "ok"
    /\ hd.raw.TotalWidth = <<0, 0, 0, 0, 0, 0, 89, 64>>
    /\ hd.raw.Origin = [j \in 1..3 |-> <<0, 0, 160, 64>>]
    /\ hd.raw.Width = [j \in 1..3 |-> <<0, 0, 64, 65>>]
    /\ call.ret = [Origin |-> <<0, 0, 0>>, Width |-> <<2, 2, 2>>]

\* C13: CellBounds with cells <= 0 fails with a ValueError and returns no
\* CellBounds value.
C13_CellsRejected ==
    (call.op = "CellBounds" /\ call.cells <= 0)
        => /\ call.outcome = "error"
           /\ call.err.kind = "ValueError"
           /\ call.ret = "nil"

\* C14: a header decode that succeeds returns the handle at offset
\* 8 + sizeof(RawGotetraHeader) with every header field decoded and Count and
\* N derived; a header decode that fails has closed the handle it opened and
\* leaves the caller's header as it was.
C14_AllOrNothing ==
    [][call'.op = "ReadSheetHeaderAt" =>
          IF call'.hdErr = NoErr
          THEN /\ HeaderAt(call'.fname, hd, call'.fault).f = "open"
               /\ HeaderAt(call'.fname, hd, call'.fault).pos = PayloadOffset
               /\ call'.fieldsRead
               /\ hd' = Postprocess(RawOf(call'.fname))
          ELSE /\ call'.closed = call'.opened
               /\ hd' = hd]_vars

\* C15: a Close of an open buffer changes the open flag and nothing else of
\* the buffer: sheet, out, sw and gw are as the preceding Read left them;
\* IsOpen reports the flag and changes nothing.
C15_CloseKeepsData ==
    [][/\ (call'.op = "Close" /\ buf.open) =>
            /\ buf' = [buf EXCEPT !.open = FALSE]
            /\ buf'.sheet = buf.sheet /\ buf'.out = buf.out
            /\ buf'.sw = buf.sw /\ buf'.gw = buf.gw
       /\ call'.op = "IsOpen" =>
            /\ buf' = buf
            /\ call'.ret = (IF buf.open THEN "true" ELSE "false")]_vars

C15_Witness ==
    /\ call.op = "Close" /\ call.outcome = "ok" /\ call.wasOpen
    /\ ~buf.open /\ cycled
    /\ buf.gw >= 2 /\ buf.sw = 2
    /\ buf.out[2] # ZeroVec /\ buf.sheet[2] # ZeroVec

\* C16: the loop of Read stays in bounds exactly when sw <= gw.  For
\* sw <= gw every sheet index x + y*gw + z*gw^2 it reads is below gw^3 and
\* every out index below sw^3 is written by exactly one (x, y, z), and the
\* loop does not panic; for sw > gw some sheet index is >= gw^3 and a Read
\* that reaches the loop panics with an index out of range.
C16_ExtractionBounds ==
    [][(call'.op = "Read" /\ ~buf.open) =>
          /\ Len(buf.sheet) = buf.gw * buf.gw * buf.gw
          /\ Len(buf.out) = buf.sw * buf.sw * buf.sw
          /\ IF buf.sw <= buf.gw
             THEN /\ \A x, y, z \in 0..(buf.sw - 1) :
                        x + y * buf.gw + z * buf.gw * buf.gw < Len(buf.sheet)
                  /\ \A k \in 0..(Len(buf.out) - 1) :
                        Cardinality({t \in (0..(buf.sw - 1))
                                            \X (0..(buf.sw - 1))
                                            \X (0..(buf.sw - 1)) :
                            t[1] + t[2] * buf.sw + t[3] * buf.sw * buf.sw = k})
                          = 1
                  /\ call'.err.kind # "panic:index out of range"
             ELSE /\ \E x, y, z \in 0..(buf.sw - 1) :
                        x + y * buf.gw + z * buf.gw * buf.gw >= Len(buf.sheet)
                  /\ \/ call'.outcome = "error"
                     \/ call'.err.kind \in
                            {"panic:index out of range",
                             "panic:Unrecognized endianness flag."}]_vars

C16_Witness ==
    /\ call.op = "Read" /\ ~call.wasOpen
    /\ call.err.kind = "panic:index out of range"
    /\ buf.sw > buf.gw /\ buf.gw >= 1

\* C17: a buffer takes gw and sw from the header of its construction file,
\* with len(sheet) = gw^3 and len(out) = sw^3, and no Read, Close or IsOpen,
\* successful or failed, changes gw, sw or the two lengths, whatever the
\* widths of the file a Read names.
C17_DimensionsFixed ==
    [][/\ (call'.op = "NewGotetraBuffer" /\ call'.outcome = "ok") =>
            /\ buf'.gw = call'.fname.gw /\ buf'.sw = call'.fname.sw
       /\ buf'.made =>
            /\ Len(buf'.sheet) = buf'.gw * buf'.gw * buf'.gw
            /\ Len(buf'.out) = buf'.sw * buf'.sw * buf'.sw
       /\ buf.made =>
            /\ buf'.made
            /\ buf'.gw = buf.gw /\ buf'.sw = buf.sw
            /\ Len(buf'.sheet) = Len(buf.sheet)
            /\ Len(buf'.out) = Len(buf.out)]_vars

C17_Witness ==
    /\ call.op = "Read" /\ call.outcome = "ok" /\ call.fieldsRead
    /\ call.fname \in WellFormedFiles
    /\ call.fname.sw # buf.sw /\ call.fname.gw = buf.gw
    /\ Len(buf.out) = buf.sw * buf.sw * buf.sw
    /\ buf.sheet[1] = VectorOf(call.fname, 0)

====
